---------------------------- MODULE Spec2Model ----------------------------
(***************************************************************************)
(* Cuban Double-9 dominoes: the round engine of src/App.tsx (second copy   *)
(* of the component, lines 509-1000) and the pure game logic of            *)
(* src/unnamed/part_000 (utils/gameLogic).                                 *)
(*                                                                         *)
(* JavaScript arrays are 0-based; sequences here are 1-based, so seat s    *)
(* is players[s + 1].  A null number is modelled by Null; a nullable       *)
(* object (Move | null, the winner record) is modelled by the empty        *)
(* sequence for null and the one-element sequence <<v>> for the object v.  *)
(*                                                                         *)
(* React: setGameState commits a new gameState; the game-loop effect       *)
(* (useEffect with deps [currentPlayerIndex, status, board.length]) runs   *)
(* after a commit whose deps differ from those of its previous run, first  *)
(* running the cleanup returned by the previous run (clearTimeout).        *)
(* Passive effects are flushed before the next event is handled, so the    *)
(* timers and the click handlers are enabled only when no effect run is    *)
(* outstanding.                                                            *)
(***************************************************************************)
EXTENDS Integers, Sequences, FiniteSets, TLC

VARIABLES players, board, boneyard, leftEnd, rightEnd, currentPlayerIndex,
          status, logs, winner, passHistory, timer, effectDeps, logic

vars == <<players, board, boneyard, leftEnd, rightEnd, currentPlayerIndex,
          status, logs, winner, passHistory, timer, effectDeps, logic>>

gameState == <<players, board, boneyard, leftEnd, rightEnd,
               currentPlayerIndex, status, logs, winner, passHistory>>

Null == -1

(* Number of distinct outcomes of the random source tried at each deal.    *)
NumSeeds == 3

Seeds == 1..NumSeeds

MaxPip == 9

HandSize == 10

NumPlayers == 4

Seats == 0..(NumPlayers - 1)

-----------------------------------------------------------------------------
(* utils/gameLogic                                                         *)

(* Variant: the inner loop starts at j = i + 1, so no double is built.     *)
RECURSIVE DeckFrom_NoDoubles(_, _)
DeckFrom_NoDoubles(i, j) ==
    IF i > MaxPip THEN <<>>
    ELSE IF j > MaxPip THEN DeckFrom_NoDoubles(i + 1, i + 2)
    ELSE IF j = i THEN DeckFrom_NoDoubles(i, j + 1)
    ELSE <<(<<i, j>>)>> \o DeckFrom_NoDoubles(i, j + 1)

RECURSIVE DeckFrom(_, _)
DeckFrom(i, j) ==
    IF i > MaxPip THEN <<>>
    ELSE IF j > MaxPip THEN DeckFrom(i + 1, i + 1)
    ELSE <<(<<i, j>>)>> \o DeckFrom(i, j + 1)

generateDeck == DeckFrom(0, 0)

(* Math.floor(Math.random() * (i + 1)): an index in 0..i.  The random      *)
(* source is a function of the seed chosen at the deal.                    *)
RandomIndex(seed, i) == (seed * 39 + i * 3 + seed * i) % (i + 1)

(* Variant: the swap written without a temporary, so newDeck[j] receives  *)
(* the value already copied into newDeck[i].                               *)
Swap_NoTemp(d, i, j) == [d EXCEPT ![i + 1] = d[j + 1]]

Swap(d, i, j) == [d EXCEPT ![i + 1] = d[j + 1], ![j + 1] = d[i + 1]]

(* The loop for (i = length - 1; i > 0; i--).  The swapped deck is          *)
(* evaluated (its length taken) before the next iteration starts.          *)
RECURSIVE ShuffleLoop(_, _, _)
ShuffleLoop(newDeck, i, seed) ==
    IF i > 0
    THEN LET swapped == Swap(newDeck, i, RandomIndex(seed, i))
         IN  IF Len(swapped) >= 0
             THEN ShuffleLoop(swapped, i - 1, seed)
             ELSE swapped
    ELSE newDeck

shuffleDeck(deck, seed) == ShuffleLoop(deck, Len(deck) - 1, seed)

getTileSum(tile) == tile[1] + tile[2]

isDouble(tile) == tile[1] = tile[2]

(* Variant: only the first comparison, t1 and t2 in the same orientation.  *)
areTilesEqual_SameOrientation(t1, t2) == t1[1] = t2[1] /\ t1[2] = t2[2]

areTilesEqual(t1, t2) ==
    \/ (t1[1] = t2[1] /\ t1[2] = t2[2])
    \/ (t1[1] = t2[2] /\ t1[2] = t2[1])

(* hand.some(t => areTilesEqual(t, target))                                *)
HandHas(hand, target) ==
    \E k \in 1..Len(hand) : areTilesEqual(hand[k], target)

(* hand.find(t => areTilesEqual(t, target)): the first such element.       *)
HandFind(hand, target) ==
    hand[CHOOSE k \in 1..Len(hand) :
            /\ areTilesEqual(hand[k], target)
            /\ \A m \in 1..(k - 1) : ~areTilesEqual(hand[m], target)]

(* Variant: the filter compares the first pip only.                        *)
RemoveTile_FirstPip(hand, tile) ==
    SelectSeq(hand, LAMBDA t : t[1] # tile[1])

(* hand.filter(t => !areTilesEqual(t, tile))                               *)
RemoveTile(hand, tile) ==
    SelectSeq(hand, LAMBDA t : ~areTilesEqual(t, tile))

RECURSIVE HandPips(_)
HandPips(hand) ==
    IF hand = <<>> THEN 0
    ELSE getTileSum(Head(hand)) + HandPips(Tail(hand))

(* Variant: the comparison s >= highestSum, so the last tile of the        *)
(* highest sum is kept.                                                    *)
RECURSIVE HighestScan_LastWins(_, _, _, _)
HighestScan_LastWins(ps, p, k, acc) ==
    IF p > Len(ps) THEN acc
    ELSE IF k > Len(ps[p].hand) THEN HighestScan_LastWins(ps, p + 1, 1, acc)
    ELSE LET t == ps[p].hand[k]
             s == getTileSum(t)
         IN  HighestScan_LastWins(ps, p, k + 1,
                                  IF s >= acc[1] THEN <<s, p - 1, t>> ELSE acc)

(* The fallback scan of determineStarter: forEach over players and hands   *)
(* with the strict comparison s > highestSum.  acc = <<highestSum,         *)
(* starterIndex, startTile>>.                                              *)
RECURSIVE HighestScan(_, _, _, _)
HighestScan(ps, p, k, acc) ==
    IF p > Len(ps) THEN acc
    ELSE IF k > Len(ps[p].hand) THEN HighestScan(ps, p + 1, 1, acc)
    ELSE LET t == ps[p].hand[k]
             s == getTileSum(t)
         IN  HighestScan(ps, p, k + 1,
                         IF s > acc[1] THEN <<s, p - 1, t>> ELSE acc)

RECURSIVE DoubleScan(_, _, _)
DoubleScan(ps, i, p) ==
    IF i < 0
    THEN LET acc == HighestScan(ps, 1, 1, <<-1, 0, <<0, 0>>>>)
         IN  [starterIndex |-> acc[2], startTile |-> acc[3]]
    ELSE IF p > Len(ps) THEN DoubleScan(ps, i - 1, 1)
    ELSE IF HandHas(ps[p].hand, <<i, i>>)
         THEN [starterIndex |-> p - 1,
               startTile |-> HandFind(ps[p].hand, <<i, i>>)]
         ELSE DoubleScan(ps, i, p + 1)

(* Variant: the boneyard scanned for doubles after the four hands.         *)
determineStarter_WithBoneyard(ps, bone) ==
    DoubleScan(ps \o <<[hand |-> bone]>>, MaxPip, 1)

determineStarter(ps, bone) == DoubleScan(ps, MaxPip, 1)

(* Variant: the uniqueTiles set used to skip the right entry of a tile     *)
(* already entered on the left.                                            *)
RECURSIVE getValidMoves_Dedupe(_, _, _)
getValidMoves_Dedupe(hand, l, r) ==
    IF hand = <<>> THEN <<>>
    ELSE IF l = Null \/ r = Null
    THEN <<[tile |-> Head(hand), side |-> "left"]>>
            \o getValidMoves_Dedupe(Tail(hand), l, r)
    ELSE LET tile == Head(hand)
             onLeft == IF tile[1] = l \/ tile[2] = l
                       THEN <<[tile |-> tile, side |-> "left"]>> ELSE <<>>
             onRight == IF (tile[1] = r \/ tile[2] = r) /\ onLeft = <<>>
                        THEN <<[tile |-> tile, side |-> "right"]>> ELSE <<>>
         IN  onLeft \o onRight \o getValidMoves_Dedupe(Tail(hand), l, r)

(* One entry per hand tile and side, in the order pushed.                  *)
RECURSIVE getValidMoves(_, _, _)
getValidMoves(hand, l, r) ==
    IF hand = <<>> THEN <<>>
    ELSE IF l = Null \/ r = Null
    THEN <<[tile |-> Head(hand), side |-> "left"]>>
            \o getValidMoves(Tail(hand), l, r)
    ELSE LET tile == Head(hand)
             onLeft == IF tile[1] = l \/ tile[2] = l
                       THEN <<[tile |-> tile, side |-> "left"]>> ELSE <<>>
             onRight == IF tile[1] = r \/ tile[2] = r
                        THEN <<[tile |-> tile, side |-> "right"]>> ELSE <<>>
         IN  onLeft \o onRight \o getValidMoves(Tail(hand), l, r)

NoMove == <<>>

(* Variant: the blocking bonus looked up for the end the tile is played   *)
(* on instead of the end it exposes.                                       *)
MoveScore_PlayedEnd(move, l, r, ph, nextPlayerId) ==
    LET tile == move.tile
        currentEnd == IF move.side = "left" THEN l ELSE r
        nextPlayerPasses == ph[nextPlayerId]
        blocks == \E k \in 1..Len(nextPlayerPasses) :
                      nextPlayerPasses[k] = currentEnd
    IN  getTileSum(tile)
          + (IF blocks THEN 25 ELSE 0)
          + (IF isDouble(tile) THEN 10 ELSE 0)

MoveScore(move, l, r, ph, nextPlayerId) ==
    LET tile == move.tile
        currentEnd == IF move.side = "left" THEN l ELSE r
        newOpenEnd == IF tile[1] = currentEnd THEN tile[2] ELSE tile[1]
        nextPlayerPasses == ph[nextPlayerId]
        blocks == \E k \in 1..Len(nextPlayerPasses) :
                      nextPlayerPasses[k] = newOpenEnd
    IN  getTileSum(tile)
          + (IF blocks THEN 25 ELSE 0)
          + (IF isDouble(tile) THEN 10 ELSE 0)

(* validMoves.map(move => ({ move, score }))                               *)
ScoredMoves(validMoves, l, r, ph, nextPlayerId) ==
    [k \in 1..Len(validMoves) |->
        [move |-> validMoves[k],
         score |-> MoveScore(validMoves[k], l, r, ph, nextPlayerId)]]

(* Array.prototype.sort with the comparator (a, b) => b.score - a.score:   *)
(* descending by score and stable, so an element goes behind every         *)
(* earlier element that does not compare after it.                         *)
(* Variant: an element goes before the earlier elements of equal score.    *)
RECURSIVE InsertSorted_Unstable(_, _)
InsertSorted_Unstable(sorted, x) ==
    IF Len(sorted) = 0 THEN <<x>>
    ELSE IF x.score - Head(sorted).score < 0
    THEN <<Head(sorted)>> \o InsertSorted_Unstable(Tail(sorted), x)
    ELSE <<x>> \o sorted

RECURSIVE InsertSorted(_, _)
InsertSorted(sorted, x) ==
    IF Len(sorted) = 0 THEN <<x>>
    ELSE IF x.score - Head(sorted).score <= 0
    THEN <<Head(sorted)>> \o InsertSorted(Tail(sorted), x)
    ELSE <<x>> \o sorted

(* The elements are inserted one by one; each intermediate array is a     *)
(* value (bound as inserted) before the next element is taken.             *)
RECURSIVE SortFrom(_, _, _)
SortFrom(scoredMoves, k, sorted) ==
    IF k > Len(scoredMoves) THEN sorted
    ELSE CHOOSE result \in
            {SortFrom(scoredMoves, k + 1, inserted) :
                inserted \in {InsertSorted(sorted, scoredMoves[k])}} : TRUE

sort(scoredMoves) == SortFrom(scoredMoves, 1, <<>>)

(* Variant: with no legal move the first tile of the hand is returned.     *)
calculateBotMove_PlaysHead(hand, l, r, ph, nextPlayerId) ==
    LET validMoves == getValidMoves(hand, l, r)
    IN  IF Len(validMoves) = 0
        THEN IF Len(hand) > 0 THEN <<[tile |-> hand[1], side |-> "left"]>>
             ELSE NoMove
        ELSE IF Len(validMoves) = 1 THEN <<validMoves[1]>>
        ELSE <<sort(ScoredMoves(validMoves, l, r, ph, nextPlayerId))[1].move>>

(* Variant: the early return taken for length <= 1 and returning null.     *)
calculateBotMove_OffByOne(hand, l, r, ph, nextPlayerId) ==
    LET validMoves == getValidMoves(hand, l, r)
    IN  IF Len(validMoves) <= 1 THEN NoMove
        ELSE <<sort(ScoredMoves(validMoves, l, r, ph, nextPlayerId))[1].move>>

calculateBotMove(hand, l, r, ph, nextPlayerId) ==
    LET validMoves == getValidMoves(hand, l, r)
    IN  IF Len(validMoves) = 0 THEN NoMove
        ELSE IF Len(validMoves) = 1 THEN <<validMoves[1]>>
        ELSE <<sort(ScoredMoves(validMoves, l, r, ph, nextPlayerId))[1].move>>

(* Variant: the test p.id === 0 instead of p.team === 0.                   *)
RECURSIVE ScoreScan_ById(_, _, _, _)
ScoreScan_ById(ps, p, team0, team1) ==
    IF p > Len(ps) THEN [team0 |-> team0, team1 |-> team1]
    ELSE LET pips == HandPips(ps[p].hand)
         IN  IF ps[p].id = 0
             THEN ScoreScan_ById(ps, p + 1, team0 + pips, team1)
             ELSE ScoreScan_ById(ps, p + 1, team0, team1 + pips)

(* players.forEach: team 0 adds to team0, any other team to team1.         *)
RECURSIVE ScoreScan(_, _, _, _)
ScoreScan(ps, p, team0, team1) ==
    IF p > Len(ps) THEN [team0 |-> team0, team1 |-> team1]
    ELSE LET pips == HandPips(ps[p].hand)
         IN  IF ps[p].team = 0
             THEN ScoreScan(ps, p + 1, team0 + pips, team1)
             ELSE ScoreScan(ps, p + 1, team0, team1 + pips)

calculateScores(ps) == ScoreScan(ps, 1, 0, 0)

-----------------------------------------------------------------------------
(* App.tsx                                                                 *)

NoPlayer == [id |-> Null, name |-> "", isBot |-> FALSE, hand |-> <<>>,
             team |-> Null]

NoTimer == [kind |-> "none", player |-> NoPlayer, leftEnd |-> Null,
            rightEnd |-> Null, passHistory |-> [s \in Seats |-> <<>>]]

NoWinner == <<>>

(* The dependency array of the game-loop effect.                           *)
Deps == <<currentPlayerIndex, status, Len(board)>>

EffectOutstanding == Deps # effectDeps

initialGameState ==
    /\ players = <<>>
    /\ board = <<>>
    /\ boneyard = <<>>
    /\ leftEnd = Null
    /\ rightEnd = Null
    /\ currentPlayerIndex = 0
    /\ status = "idle"
    /\ logs = <<>>
    /\ winner = NoWinner
    /\ passHistory = [s \in Seats |-> <<>>]

(* After mount: the effect has run once on the idle state and returned.    *)
(* No call of the game logic recorded.                                     *)
NoCall == [hand |-> <<>>, leftEnd |-> Null, rightEnd |-> Null,
           passHistory |-> [s \in Seats |-> <<>>], nextPlayerId |-> 0,
           validMoves |-> <<>>, botMove |-> <<>>]

Mounted ==
    /\ initialGameState
    /\ timer = NoTimer
    /\ effectDeps = <<0, "idle", 0>>

Init ==
    /\ Mounted
    /\ logic = NoCall

(* Variant: clockwise order.                                               *)
getNextPlayerIndex_Clockwise(current) == (current + 1) % 4

getNextPlayerIndex(current) == (current - 1 + 4) % 4

(* deck.slice(from, to), 0-based, end exclusive.                           *)
Slice(deck, from, to) == SubSeq(deck, from + 1, to)

DealtPlayers(deck) ==
    << [id |-> 0, name |-> "You", isBot |-> FALSE,
        hand |-> Slice(deck, 0, HandSize), team |-> 0],
       [id |-> 1, name |-> "Bot 1 (Left)", isBot |-> TRUE,
        hand |-> Slice(deck, HandSize, 2 * HandSize), team |-> 1],
       [id |-> 2, name |-> "Bot 2 (Partner)", isBot |-> TRUE,
        hand |-> Slice(deck, 2 * HandSize, 3 * HandSize), team |-> 0],
       [id |-> 3, name |-> "Bot 3 (Right)", isBot |-> TRUE,
        hand |-> Slice(deck, 3 * HandSize, 4 * HandSize), team |-> 1] >>

(* Variant: the new state spread from the previous gameState instead of    *)
(* initialGameState, without the explicit passHistory reset.               *)
startGame_KeepsPrevious(seed) ==
    /\ status \in {"idle", "round_over"}
    /\ ~EffectOutstanding
    /\ LET deck == shuffleDeck(generateDeck, seed)
           dealt == DealtPlayers(deck)
           bone == Slice(deck, 4 * HandSize, Len(deck))
           st == determineStarter(dealt, bone)
           starterIndex == st.starterIndex
           startTile == st.startTile
           starter == dealt[starterIndex + 1]
       IN  /\ players' = [dealt EXCEPT ![starterIndex + 1].hand =
                                 RemoveTile(starter.hand, startTile)]
           /\ boneyard' = bone
           /\ board' = <<startTile>>
           /\ leftEnd' = startTile[1]
           /\ rightEnd' = startTile[2]
           /\ currentPlayerIndex' = (starterIndex - 1 + 4) % 4
           /\ logs' = <<[kind |-> "start", name |-> starter.name,
                         tile |-> startTile]>>
    /\ status' = "playing"
    /\ UNCHANGED <<winner, passHistory, timer, effectDeps, logic>>

(* Variant: the starter does not play the start tile; the round opens on   *)
(* an empty board with the starter to move.                                *)
startGame_NoFirstTile(seed) ==
    /\ status \in {"idle", "round_over"}
    /\ ~EffectOutstanding
    /\ LET deck == shuffleDeck(generateDeck, seed)
           dealt == DealtPlayers(deck)
           bone == Slice(deck, 4 * HandSize, Len(deck))
           st == determineStarter(dealt, bone)
       IN  /\ players' = dealt
           /\ boneyard' = bone
           /\ board' = <<>>
           /\ leftEnd' = Null
           /\ rightEnd' = Null
           /\ currentPlayerIndex' = st.starterIndex
           /\ logs' = <<[kind |-> "start", name |-> dealt[st.starterIndex + 1].name,
                         tile |-> st.startTile]>>
    /\ status' = "playing"
    /\ winner' = NoWinner
    /\ passHistory' = [s \in Seats |-> <<>>]
    /\ UNCHANGED <<timer, effectDeps, logic>>

(* The Start Game / Play Again / Start New Round buttons are rendered only *)
(* in status idle or round_over.                                           *)
startGame(seed) ==
    /\ status \in {"idle", "round_over"}
    /\ ~EffectOutstanding
    /\ LET deck == shuffleDeck(generateDeck, seed)
           dealt == DealtPlayers(deck)
           bone == Slice(deck, 4 * HandSize, Len(deck))
           st == determineStarter(dealt, bone)
           starterIndex == st.starterIndex
           startTile == st.startTile
           starter == dealt[starterIndex + 1]
       IN  /\ players' = [dealt EXCEPT ![starterIndex + 1].hand =
                                 RemoveTile(starter.hand, startTile)]
           /\ boneyard' = bone
           /\ board' = <<startTile>>
           /\ leftEnd' = startTile[1]
           /\ rightEnd' = startTile[2]
           /\ currentPlayerIndex' = (starterIndex - 1 + 4) % 4
           /\ logs' = <<[kind |-> "start", name |-> starter.name,
                         tile |-> startTile]>>
    /\ status' = "playing"
    /\ winner' = NoWinner
    /\ passHistory' = [s \in Seats |-> <<>>]
    /\ UNCHANGED <<timer, effectDeps, logic>>

(* Variant: the pass recorded without advancing the active seat.           *)
handlePass_NoAdvance(player) ==
    LET missed == (IF leftEnd # Null THEN <<leftEnd>> ELSE <<>>)
                  \o (IF rightEnd # Null /\ rightEnd # leftEnd
                      THEN <<rightEnd>> ELSE <<>>)
    IN  /\ passHistory' = [passHistory EXCEPT
                             ![player.id] = passHistory[player.id] \o missed]
        /\ logs' = Append(logs, [kind |-> "pass", name |-> player.name])
        /\ UNCHANGED <<players, board, boneyard, leftEnd, rightEnd, status,
                       winner, currentPlayerIndex>>

(* Variant: the right end recorded even when it equals the left end.       *)
handlePass_BothEnds(player) ==
    LET missed == (IF leftEnd # Null THEN <<leftEnd>> ELSE <<>>)
                  \o (IF rightEnd # Null THEN <<rightEnd>> ELSE <<>>)
    IN  /\ passHistory' = [passHistory EXCEPT
                             ![player.id] = passHistory[player.id] \o missed]
        /\ currentPlayerIndex' = getNextPlayerIndex(currentPlayerIndex)
        /\ logs' = Append(logs, [kind |-> "pass", name |-> player.name])
        /\ UNCHANGED <<players, board, boneyard, leftEnd, rightEnd, status,
                       winner>>

(* Variant: the missed values recorded for the seat that plays next.       *)
handlePass_NextSeat(player) ==
    LET missed == (IF leftEnd # Null THEN <<leftEnd>> ELSE <<>>)
                  \o (IF rightEnd # Null /\ rightEnd # leftEnd
                      THEN <<rightEnd>> ELSE <<>>)
        next == getNextPlayerIndex(player.id)
    IN  /\ passHistory' = [passHistory EXCEPT
                             ![next] = passHistory[next] \o missed]
        /\ currentPlayerIndex' = getNextPlayerIndex(currentPlayerIndex)
        /\ logs' = Append(logs, [kind |-> "pass", name |-> player.name])
        /\ UNCHANGED <<players, board, boneyard, leftEnd, rightEnd, status,
                       winner>>

(* setGameState(prev => ...) of handlePass.                                *)
handlePass(player) ==
    LET missed == (IF leftEnd # Null THEN <<leftEnd>> ELSE <<>>)
                  \o (IF rightEnd # Null /\ rightEnd # leftEnd
                      THEN <<rightEnd>> ELSE <<>>)
    IN  /\ passHistory' = [passHistory EXCEPT
                             ![player.id] = passHistory[player.id] \o missed]
        /\ currentPlayerIndex' = getNextPlayerIndex(currentPlayerIndex)
        /\ logs' = Append(logs, [kind |-> "pass", name |-> player.name])
        /\ UNCHANGED <<players, board, boneyard, leftEnd, rightEnd, status,
                       winner>>

(* Variant: the round end puts the status back to idle.                    *)
handleRoundEnd_ToIdle(reason, winningTeam) ==
    LET scores == calculateScores(players)
        points == IF winningTeam = 0 THEN scores.team1 ELSE scores.team0
    IN  /\ status' = "idle"
        /\ winner' = <<[team |-> winningTeam, reason |-> reason,
                        points |-> points]>>
        /\ logs' = Append(logs, [kind |-> "over", team |-> winningTeam,
                                 reason |-> reason, points |-> points])
        /\ UNCHANGED <<players, board, boneyard, leftEnd, rightEnd,
                       currentPlayerIndex, passHistory>>

(* Variant: the points taken from the winning team's own hands.            *)
handleRoundEnd_OwnPips(reason, winningTeam) ==
    LET scores == calculateScores(players)
        points == IF winningTeam = 0 THEN scores.team0 ELSE scores.team1
    IN  /\ status' = "round_over"
        /\ winner' = <<[team |-> winningTeam, reason |-> reason,
                        points |-> points]>>
        /\ logs' = Append(logs, [kind |-> "over", team |-> winningTeam,
                                 reason |-> reason, points |-> points])
        /\ UNCHANGED <<players, board, boneyard, leftEnd, rightEnd,
                       currentPlayerIndex, passHistory>>

(* setGameState(prev => ...) of handleRoundEnd.                            *)
handleRoundEnd(reason, winningTeam) ==
    LET scores == calculateScores(players)
        points == IF winningTeam = 0 THEN scores.team1 ELSE scores.team0
    IN  /\ status' = "round_over"
        /\ winner' = <<[team |-> winningTeam, reason |-> reason,
                        points |-> points]>>
        /\ logs' = Append(logs, [kind |-> "over", team |-> winningTeam,
                                 reason |-> reason, points |-> points])
        /\ UNCHANGED <<players, board, boneyard, leftEnd, rightEnd,
                       currentPlayerIndex, passHistory>>

(* prev.players.find(p => p.id === playerId)                               *)
PlayerById(playerId) ==
    players[CHOOSE k \in 1..Len(players) : players[k].id = playerId]

(* Variant: the new end is always the tile's second pip.                   *)
NewEnd_SecondPip(tile, end) == tile[2]

NewEnd(tile, end) ==
    IF tile[1] = end THEN tile[2]
    ELSE IF tile[2] = end THEN tile[1]
    ELSE end

(* Variant: the tile written over the end tile of the board instead of     *)
(* being added next to it.                                                 *)
applyMove_ReplacesEnd(playerId, tile, side) ==
    LET player == PlayerById(playerId)
        newHand == RemoveTile(player.hand, tile)
    IN  /\ players' = [k \in 1..Len(players) |->
                          IF players[k].id = playerId
                          THEN [players[k] EXCEPT !.hand = newHand]
                          ELSE players[k]]
        /\ IF side = "left"
           THEN /\ leftEnd' = NewEnd(tile, leftEnd)
                /\ rightEnd' = rightEnd
                /\ board' = <<tile>> \o Tail(board)
           ELSE /\ rightEnd' = NewEnd(tile, rightEnd)
                /\ leftEnd' = leftEnd
                /\ board' = Append(SubSeq(board, 1, Len(board) - 1), tile)
        /\ currentPlayerIndex' = getNextPlayerIndex(currentPlayerIndex)
        /\ logs' = Append(logs, [kind |-> "play", name |-> player.name,
                                 tile |-> tile, side |-> side])
        /\ UNCHANGED <<boneyard, status, winner, passHistory>>

(* setGameState(prev => ...) of applyMove: unshift on the left, push on    *)
(* the right.                                                              *)
applyMove(playerId, tile, side) ==
    LET player == PlayerById(playerId)
        newHand == RemoveTile(player.hand, tile)
    IN  /\ players' = [k \in 1..Len(players) |->
                          IF players[k].id = playerId
                          THEN [players[k] EXCEPT !.hand = newHand]
                          ELSE players[k]]
        /\ IF side = "left"
           THEN /\ leftEnd' = NewEnd(tile, leftEnd)
                /\ rightEnd' = rightEnd
                /\ board' = <<tile>> \o board
           ELSE /\ rightEnd' = NewEnd(tile, rightEnd)
                /\ leftEnd' = leftEnd
                /\ board' = Append(board, tile)
        /\ currentPlayerIndex' = getNextPlayerIndex(currentPlayerIndex)
        /\ logs' = Append(logs, [kind |-> "play", name |-> player.name,
                                 tile |-> tile, side |-> side])
        /\ UNCHANGED <<boneyard, status, winner, passHistory>>

(* Variant: the tranque check left out of the effect.                      *)
anyValidMove_NoCheck == TRUE

(* Variant: only the active player's moves are looked at.                  *)
anyValidMove_CurrentOnly ==
    Len(getValidMoves(players[currentPlayerIndex + 1].hand, leftEnd,
                      rightEnd)) > 0

(* gameState.players.some(p => getValidMoves(p.hand, ...).length > 0)       *)
anyValidMove ==
    \E k \in 1..Len(players) :
        Len(getValidMoves(players[k].hand, leftEnd, rightEnd)) > 0

(* Variant: the scan without its else-if branch, so the first player with  *)
(* the lowest total is kept.                                               *)
RECURSIVE TranqueScan_FirstWins(_, _, _, _)
TranqueScan_FirstWins(ps, p, minPips, winningTeam) ==
    IF p > Len(ps) THEN winningTeam
    ELSE LET pips == HandPips(ps[p].hand)
         IN  IF pips < minPips
             THEN TranqueScan_FirstWins(ps, p + 1, pips, ps[p].team)
             ELSE TranqueScan_FirstWins(ps, p + 1, minPips, winningTeam)

(* Variant: the scan never lowers minPips.                                 *)
RECURSIVE TranqueScan_NoMin(_, _, _, _)
TranqueScan_NoMin(ps, p, minPips, winningTeam) ==
    IF p > Len(ps) THEN winningTeam
    ELSE LET pips == HandPips(ps[p].hand)
         IN  IF pips <= minPips
             THEN TranqueScan_NoMin(ps, p + 1, minPips, ps[p].team)
             ELSE TranqueScan_NoMin(ps, p + 1, minPips, winningTeam)

(* The tranque scan: forEach over the players in seat order.               *)
RECURSIVE TranqueScan(_, _, _, _)
TranqueScan(ps, p, minPips, winningTeam) ==
    IF p > Len(ps) THEN winningTeam
    ELSE LET pips == HandPips(ps[p].hand)
         IN  IF pips < minPips
             THEN TranqueScan(ps, p + 1, pips, ps[p].team)
             ELSE IF pips = minPips
             THEN TranqueScan(ps, p + 1, minPips, ps[p].team)
             ELSE TranqueScan(ps, p + 1, minPips, winningTeam)

(* Variant: minPips initialised to 0 instead of 1000.                      *)
tranqueWinner_MinFromZero == TranqueScan(players, 1, 0, -1)

tranqueWinner == TranqueScan(players, 1, 1000, -1)

(* The closure of a scheduled callback: the player object and the          *)
(* gameState of the render in which the effect ran.                        *)
Schedule(kind, player) ==
    [kind |-> kind, player |-> player, leftEnd |-> leftEnd,
     rightEnd |-> rightEnd, passHistory |-> passHistory]

(* Variant: the effect without its first line, the status guard.           *)
GameLoop_NoStatusGuard ==
    /\ EffectOutstanding
    /\ effectDeps' = Deps
    /\ UNCHANGED logic
    /\ LET currentPlayer == players[currentPlayerIndex + 1]
       IN  IF Len(currentPlayer.hand) = 0
           THEN /\ handleRoundEnd("domino", currentPlayer.team)
                /\ timer' = NoTimer
           ELSE IF ~anyValidMove /\ Len(board) > 0
           THEN /\ handleRoundEnd("tranque", tranqueWinner)
                /\ timer' = NoTimer
           ELSE IF currentPlayer.isBot
           THEN /\ timer' = Schedule("bot", currentPlayer)
                /\ UNCHANGED gameState
           ELSE IF /\ Len(getValidMoves(currentPlayer.hand, leftEnd,
                                        rightEnd)) = 0
                   /\ Len(board) > 0
           THEN /\ timer' = Schedule("pass", currentPlayer)
                /\ UNCHANGED gameState
           ELSE /\ timer' = NoTimer
                /\ UNCHANGED gameState

(* One run of the game-loop effect, preceded by the cleanup of its         *)
(* previous run (clearTimeout).  handleRoundEnd's update is committed      *)
(* within the run.                                                         *)
GameLoop ==
    /\ EffectOutstanding
    /\ effectDeps' = Deps
    /\ UNCHANGED logic
    /\ IF status # "playing"
       THEN /\ timer' = NoTimer
            /\ UNCHANGED gameState
       ELSE LET currentPlayer == players[currentPlayerIndex + 1]
            IN  IF Len(currentPlayer.hand) = 0
                THEN /\ handleRoundEnd("domino", currentPlayer.team)
                     /\ timer' = NoTimer
                ELSE IF ~anyValidMove /\ Len(board) > 0
                THEN /\ handleRoundEnd("tranque", tranqueWinner)
                     /\ timer' = NoTimer
                ELSE IF currentPlayer.isBot
                THEN /\ timer' = Schedule("bot", currentPlayer)
                     /\ UNCHANGED gameState
                ELSE IF /\ Len(getValidMoves(currentPlayer.hand, leftEnd,
                                             rightEnd)) = 0
                        /\ Len(board) > 0
                THEN /\ timer' = Schedule("pass", currentPlayer)
                     /\ UNCHANGED gameState
                ELSE /\ timer' = NoTimer
                     /\ UNCHANGED gameState

(* Variant: the callback scheduled with setInterval, so it stays pending   *)
(* after it has run.                                                       *)
executeBotTurn_Interval ==
    /\ timer.kind = "bot"
    /\ ~EffectOutstanding
    /\ LET bot == timer.player
           nextPlayerId == getNextPlayerIndex(bot.id)
       IN  \E move \in {calculateBotMove(bot.hand, timer.leftEnd,
                                         timer.rightEnd, timer.passHistory,
                                         nextPlayerId)} :
               IF move # NoMove
               THEN applyMove(bot.id, move[1].tile, move[1].side)
               ELSE handlePass(bot)
    /\ UNCHANGED <<timer, effectDeps, logic>>

(* The bot timer fires: executeBotTurn(bot) reads the open ends and the    *)
(* pass history of its closure; applyMove and handlePass update the        *)
(* current state.                                                          *)
executeBotTurn ==
    /\ timer.kind = "bot"
    /\ ~EffectOutstanding
    /\ LET bot == timer.player
           nextPlayerId == getNextPlayerIndex(bot.id)
       IN  \E move \in {calculateBotMove(bot.hand, timer.leftEnd,
                                         timer.rightEnd, timer.passHistory,
                                         nextPlayerId)} :
               IF move # NoMove
               THEN applyMove(bot.id, move[1].tile, move[1].side)
               ELSE handlePass(bot)
    /\ timer' = NoTimer
    /\ UNCHANGED <<effectDeps, logic>>

(* The human auto-pass timer fires: handlePass(currentPlayer).             *)
autoPass ==
    /\ timer.kind = "pass"
    /\ ~EffectOutstanding
    /\ handlePass(timer.player)
    /\ timer' = NoTimer
    /\ UNCHANGED <<effectDeps, logic>>

(* Variant: a tile fitting both ends is played on the first side found,    *)
(* without asking.                                                         *)
onUserTileClick_NoPrompt(tile, choice) ==
    /\ ~EffectOutstanding
    /\ IF currentPlayerIndex # 0 \/ status # "playing"
       THEN UNCHANGED vars
       ELSE LET validMoves == getValidMoves(<<tile>>, leftEnd, rightEnd)
            IN  IF Len(validMoves) = 0 THEN UNCHANGED vars
                ELSE /\ applyMove(0, tile, validMoves[1].side)
                     /\ UNCHANGED <<timer, effectDeps, logic>>

(* Variant: the handler without its turn and status guard.                 *)
onUserTileClick_NoTurnCheck(tile, choice) ==
    /\ ~EffectOutstanding
    /\ LET validMoves == getValidMoves(<<tile>>, leftEnd, rightEnd)
       IN  IF Len(validMoves) = 0 THEN UNCHANGED vars
           ELSE /\ IF Len(validMoves) = 1
                   THEN applyMove(0, tile, validMoves[1].side)
                   ELSE IF leftEnd = rightEnd
                   THEN applyMove(0, tile, "left")
                   ELSE applyMove(0, tile,
                                  IF choice THEN "left" ELSE "right")
                /\ UNCHANGED <<timer, effectDeps, logic>>

(* A click on a tile of the human's hand; choice is the answer to          *)
(* window.confirm (TRUE = left).                                           *)
onUserTileClick(tile, choice) ==
    /\ ~EffectOutstanding
    /\ IF currentPlayerIndex # 0 \/ status # "playing"
       THEN UNCHANGED vars
       ELSE LET validMoves == getValidMoves(<<tile>>, leftEnd, rightEnd)
            IN  IF Len(validMoves) = 0 THEN UNCHANGED vars
                ELSE /\ IF Len(validMoves) = 1
                        THEN applyMove(0, tile, validMoves[1].side)
                        ELSE IF leftEnd = rightEnd
                        THEN applyMove(0, tile, "left")
                        ELSE applyMove(0, tile,
                                       IF choice THEN "left" ELSE "right")
                     /\ UNCHANGED <<timer, effectDeps, logic>>

(* Variant: after a flipped tile the pip laid against the neighbour is     *)
(* carried forward instead of the other one.                               *)
RECURSIVE OrientFrom_CarriesMatched(_, _)
OrientFrom_CarriesMatched(b, expectedMatch) ==
    IF b = <<>> THEN <<>>
    ELSE LET tile == Head(b)
         IN  IF tile[1] = expectedMatch
             THEN <<tile>> \o OrientFrom_CarriesMatched(Tail(b), tile[2])
             ELSE <<(<<tile[2], tile[1]>>)>>
                     \o OrientFrom_CarriesMatched(Tail(b), tile[2])

(* gameState.board.map of getVisualChain: a tile whose first pip is the    *)
(* expected match is kept, any other tile is flipped; the pip not laid     *)
(* against the neighbour becomes the next expected match.                  *)
RECURSIVE OrientFrom(_, _)
OrientFrom(b, expectedMatch) ==
    IF b = <<>> THEN <<>>
    ELSE LET tile == Head(b)
         IN  IF tile[1] = expectedMatch
             THEN <<tile>> \o OrientFrom(Tail(b), tile[2])
             ELSE <<(<<tile[2], tile[1]>>)>> \o OrientFrom(Tail(b), tile[1])

getVisualChain ==
    IF Len(board) = 0 THEN <<>> ELSE OrientFrom(board, leftEnd)

UserTileClick ==
    /\ Len(players) > 0
    /\ \E k \in 1..Len(players[1].hand) : \E choice \in BOOLEAN :
           onUserTileClick(players[1].hand[k], choice)

StartGame == \E seed \in Seeds : startGame(seed)

Next ==
    \/ StartGame
    \/ GameLoop
    \/ executeBotTurn
    \/ autoPass
    \/ UserTileClick

Spec == Init /\ [][Next]_vars

(* The scheduling the environment provides: React flushes the effect,     *)
(* the browser fires a pending timeout, and the human, when active with a  *)
(* tile that fits, eventually plays one.                                   *)
SpecFair ==
    /\ Spec
    /\ WF_vars(GameLoop)
    /\ WF_vars(executeBotTurn)
    /\ WF_vars(autoPass)
    /\ WF_vars(UserTileClick)

-----------------------------------------------------------------------------
(* The game logic called on its own: getValidMoves and calculateBotMove    *)
(* applied to hands, open ends and pass histories drawn from bounded sets. *)

(* Longest hand passed to the game logic.                                  *)
MaxHandLen == 2

(* The pips used are 0..LogicLow and MaxPip.                               *)
LogicLow == 1

(* Most pips a seat has passed on.                                         *)
MaxPassed == 1

LogicPips == (0..LogicLow) \cup {MaxPip}

(* Tiles as generateDeck builds them: [i, j] with i <= j.                  *)
LogicTiles == {t \in LogicPips \X LogicPips : t[1] <= t[2]}

SeqsUpTo(S, n) == UNION {[1..k -> S] : k \in 0..n}

(* A hand holds each tile at most once.                                    *)
LogicHands ==
    {h \in SeqsUpTo(LogicTiles, MaxHandLen) :
        \A i \in 1..Len(h) : \A j \in 1..Len(h) : i # j => h[i] # h[j]}

RECURSIVE Ascending(_)
Ascending(S) ==
    IF S = {} THEN <<>>
    ELSE LET m == CHOOSE x \in S : \A y \in S : x <= y
         IN  <<m>> \o Ascending(S \ {m})

(* The open ends of a call: both null, or both set.                        *)
LogicEnds ==
    {<<Null, Null>>} \cup (LogicPips \X LogicPips)

(* The pass history of a seat is read only through includes(): one         *)
(* sequence for each set of at most MaxPassed pips.                        *)
LogicPassed ==
    {Ascending(S) : S \in {T \in SUBSET LogicPips : Cardinality(T) <= MaxPassed}}

(* The pass histories: the next seat has passed on the pips of p, every    *)
(* other seat on the remaining pips.                                       *)
LogicHistory(p, nextPlayerId) ==
    LET passed == {p[k] : k \in 1..Len(p)}
    IN  [s \in Seats |-> IF s = nextPlayerId THEN p
                         ELSE Ascending(LogicPips \ passed)]

(* executeBotTurn passes getNextPlayerIndex(bot.id); the bots are seats    *)
(* 1..3.                                                                   *)
NextPlayerIds == {getNextPlayerIndex(b) : b \in 1..(NumPlayers - 1)}

InitLogic ==
    /\ Mounted
    /\ \E hand \in LogicHands :
       \E ends \in LogicEnds :
       \E p \in LogicPassed :
       \E nextPlayerId \in NextPlayerIds :
          logic = [hand |-> hand, leftEnd |-> ends[1], rightEnd |-> ends[2],
                   passHistory |-> LogicHistory(p, nextPlayerId),
                   nextPlayerId |-> nextPlayerId,
                   validMoves |-> <<>>, botMove |-> <<>>]

CallGetValidMoves ==
    /\ logic.validMoves = <<>>
    /\ logic.botMove = <<>>
    /\ logic' = [logic EXCEPT !.validMoves =
                     <<getValidMoves(logic.hand, logic.leftEnd,
                                     logic.rightEnd)>>]
    /\ UNCHANGED <<gameState, timer, effectDeps>>

CallCalculateBotMove ==
    /\ logic.validMoves = <<>>
    /\ logic.botMove = <<>>
    /\ logic' = [logic EXCEPT !.botMove =
                     <<calculateBotMove(logic.hand, logic.leftEnd,
                                        logic.rightEnd, logic.passHistory,
                                        logic.nextPlayerId)>>]
    /\ UNCHANGED <<gameState, timer, effectDeps>>

NextLogic ==
    \/ CallGetValidMoves
    \/ CallCalculateBotMove

SpecLogic == InitLogic /\ [][NextLogic]_vars

-----------------------------------------------------------------------------
(* areTilesEqual called on its own, on every pair of tiles with pips in    *)
(* 0..MaxPip, in either orientation.                                       *)

AllTiles == (0..MaxPip) \X (0..MaxPip)

InitTiles ==
    /\ Mounted
    /\ \E t1 \in AllTiles :
       \E t2 \in AllTiles :
          logic = [t1 |-> t1, t2 |-> t2, tilesEqual |-> <<>>]

CallAreTilesEqual ==
    /\ logic.tilesEqual = <<>>
    /\ logic' = [logic EXCEPT !.tilesEqual =
                     <<areTilesEqual(logic.t1, logic.t2)>>]
    /\ UNCHANGED <<gameState, timer, effectDeps>>

NextTiles == CallAreTilesEqual

SpecTiles == InitTiles /\ [][NextTiles]_vars

-----------------------------------------------------------------------------
(* generateDeck and shuffleDeck called on their own.  shuffleDeck runs     *)
(* one loop iteration at a time, the random index of each iteration being  *)
(* any value Math.floor(Math.random() * (i + 1)) can take.                 *)

(* Longest deck passed to shuffleDeck: the first tiles of generateDeck.    *)
MaxDeckLen == 5

NotCalled ==
    [pc |-> "start", generated |-> <<>>, deck |-> <<>>, newDeck |-> <<>>,
     i |-> 0, shuffled |-> <<>>]

InitDeck ==
    /\ Mounted
    /\ logic = NotCalled

CallGenerateDeck ==
    /\ logic.pc = "start"
    /\ logic' = [logic EXCEPT !.pc = "generated", !.generated = generateDeck]
    /\ UNCHANGED <<gameState, timer, effectDeps>>

(* shuffleDeck(deck) entered: newDeck = [...deck], i = newDeck.length - 1. *)
CallShuffleDeck(n) ==
    /\ logic.pc = "generated"
    /\ LET deck == Slice(logic.generated, 0, n)
       IN  logic' = [logic EXCEPT !.pc = "shuffling", !.deck = deck,
                                  !.newDeck = deck, !.i = Len(deck) - 1]
    /\ UNCHANGED <<gameState, timer, effectDeps>>

(* Variant: newDeck = deck, the loop swapping in the array passed in.      *)
Iterate_InPlace(lg, j) ==
    [lg EXCEPT !.deck = Swap(lg.newDeck, lg.i, j),
               !.newDeck = Swap(lg.newDeck, lg.i, j),
               !.i = lg.i - 1]

(* One iteration: newDeck[i] and newDeck[j] swapped, i--.                  *)
Iterate(lg, j) ==
    [lg EXCEPT !.newDeck = Swap(lg.newDeck, lg.i, j), !.i = lg.i - 1]

ShuffleIteration ==
    /\ logic.pc = "shuffling"
    /\ logic.i > 0
    /\ \E j \in 0..logic.i : logic' = Iterate(logic, j)
    /\ UNCHANGED <<gameState, timer, effectDeps>>

(* The loop condition i > 0 fails: return newDeck.                         *)
ReturnShuffleDeck ==
    /\ logic.pc = "shuffling"
    /\ logic.i <= 0
    /\ logic' = [logic EXCEPT !.pc = "returned", !.shuffled = logic.newDeck]
    /\ UNCHANGED <<gameState, timer, effectDeps>>

NextDeck ==
    \/ CallGenerateDeck
    \/ \E n \in 0..MaxDeckLen : CallShuffleDeck(n)
    \/ ShuffleIteration
    \/ ReturnShuffleDeck

SpecDeck == InitDeck /\ [][NextDeck]_vars

-----------------------------------------------------------------------------
(* determineStarter and calculateScores called on their own, on deals of   *)
(* a short deck: the first DealDeckLen tiles of generateDeck, shuffled and *)
(* sliced into four hands of DealSize tiles and a boneyard.                *)

DealDeckLen == 18

DealSize == 2

DealSeeds == 100

(* The seats of DealtPlayers with hands of DealSize tiles.                 *)
DealOf(deck) ==
    [p \in 1..NumPlayers |->
        [DealtPlayers(generateDeck)[p] EXCEPT
            !.hand = Slice(deck, (p - 1) * DealSize, p * DealSize)]]

(* The hands later in the round: seat s still holds the first left[s]      *)
(* tiles of its hand.                                                      *)
Remaining(ps, left) ==
    [p \in 1..NumPlayers |->
        [ps[p] EXCEPT !.hand = Slice(ps[p].hand, 0, left[p - 1])]]

InitDeal ==
    /\ Mounted
    /\ \E seed \in 1..DealSeeds :
       \E left \in [Seats -> 0..DealSize] :
          LET deck == shuffleDeck(Slice(generateDeck, 0, DealDeckLen), seed)
              dealt == DealOf(deck)
          IN  logic = [players |-> dealt,
                       boneyard |-> Slice(deck, NumPlayers * DealSize,
                                          Len(deck)),
                       remaining |-> Remaining(dealt, left),
                       starter |-> <<>>, scores |-> <<>>]

CallDetermineStarter ==
    /\ logic.starter = <<>>
    /\ logic.scores = <<>>
    /\ logic' = [logic EXCEPT !.starter =
                     <<determineStarter(logic.players, logic.boneyard)>>]
    /\ UNCHANGED <<gameState, timer, effectDeps>>

CallCalculateScores ==
    /\ logic.starter = <<>>
    /\ logic.scores = <<>>
    /\ logic' = [logic EXCEPT !.scores = <<calculateScores(logic.remaining)>>]
    /\ UNCHANGED <<gameState, timer, effectDeps>>

NextDeal ==
    \/ CallDetermineStarter
    \/ CallCalculateScores

SpecDeal == InitDeal /\ [][NextDeal]_vars

-----------------------------------------------------------------------------
(* Vocabulary of the properties, stated on the state alone.                *)

Hand(s) == players[s + 1].hand

Dealt == Len(players) = NumPlayers

TeamOf(s) == s % 2

Touches(t, e) == t[1] = e \/ t[2] = e

SeatCanMove(s) ==
    \E k \in 1..Len(Hand(s)) :
        Touches(Hand(s)[k], leftEnd) \/ Touches(Hand(s)[k], rightEnd)

NoSeatCanMove == \A s \in Seats : ~SeatCanMove(s)

SomeHandEmpty == Dealt /\ \E s \in Seats : Hand(s) = <<>>

Pips(s) == HandPips(Hand(s))

LastLog == logs[Len(logs)]

RoundEnds == status = "playing" /\ status' = "round_over"

(* A step that plays a tile: the board changes during play.                *)
PlayStep == status = "playing" /\ board' # board

(* A step that registers a pass: a pass entry is appended to the log.      *)
PassStep ==
    /\ Len(logs') = Len(logs) + 1
    /\ logs'[Len(logs')].kind = "pass"

(* The sequence seq without its k-th element.                              *)
Without(seq, k) == SubSeq(seq, 1, k - 1) \o SubSeq(seq, k + 1, Len(seq))

-----------------------------------------------------------------------------
(* C1: once a play has left a hand empty while the round is in progress,   *)
(* the only change of the game state is the end of the round with reason   *)
(* domino for the team of the player whose hand is empty; no play and no   *)
(* pass happens first.                                                     *)
C1_DominoImmediately ==
    [][(status = "playing" /\ SomeHandEmpty /\ gameState' # gameState)
         => /\ status' = "round_over"
            /\ players' = players
            /\ passHistory' = passHistory
            /\ winner'[1].reason = "domino"
            /\ \E s \in Seats : Hand(s) = <<>> /\ winner'[1].team = TeamOf(s)
      ]_vars

(* C2: at round over the reason is domino exactly when some hand is empty  *)
(* (so tranque only when every player holds a tile), and with a single     *)
(* empty hand the winner is the team of its owner.                         *)
C2_ReasonMatchesHands ==
    status = "round_over" =>
        /\ (winner[1].reason = "domino") <=> SomeHandEmpty
        /\ (winner[1].reason = "tranque") => ~SomeHandEmpty
        /\ \A s \in Seats :
              (Hand(s) = <<>> /\ \A o \in Seats \ {s} : Hand(o) # <<>>)
                 => winner[1].team = TeamOf(s)

(* C3: a per-turn evaluation that finds the active hand non-empty, the     *)
(* board non-empty and no seat able to move ends the round with reason     *)
(* tranque; and a round ends with reason tranque only from a state in      *)
(* which no seat can move.                                                 *)
C3_TranqueIffLocked ==
    [][/\ (/\ status = "playing"
           /\ EffectOutstanding
           /\ Hand(currentPlayerIndex) # <<>>
           /\ board # <<>>
           /\ NoSeatCanMove)
          => (status' = "round_over" /\ winner'[1].reason = "tranque")
       /\ (RoundEnds /\ winner'[1].reason = "tranque")
          => (NoSeatCanMove /\ board # <<>>)
      ]_vars

C3_Witness ==
    /\ status = "round_over"
    /\ winner[1].reason = "tranque"
    /\ NoSeatCanMove
    /\ ~SomeHandEmpty

(* C4: after a tranque in which one player's pip total is strictly below   *)
(* every other player's, the winner is that player's team.                 *)
C4_LowestPipsWins ==
    (status = "round_over" /\ winner[1].reason = "tranque") =>
        \A s \in Seats :
            (\A o \in Seats \ {s} : Pips(s) < Pips(o))
               => winner[1].team = TeamOf(s)

C4_Witness ==
    /\ status = "round_over"
    /\ winner[1].reason = "tranque"
    /\ \E s \in Seats :
          /\ \A o \in Seats \ {s} : Pips(s) < Pips(o)
          /\ TeamOf(s) = 0
          /\ Pips(s) > 0

(* C5: at round over the points are the pips left in the hands of the two  *)
(* players of the team that did not win.                                   *)
LosersPips ==
    LET losers == {s \in Seats : TeamOf(s) # winner[1].team}
        a == CHOOSE s \in losers : TRUE
        b == CHOOSE s \in losers : s # a
    IN  IF Cardinality(losers) = 2 THEN Pips(a) + Pips(b) ELSE -1

C5_PointsAreLosersPips ==
    status = "round_over" => winner[1].points = LosersPips

C5_Witness ==
    /\ status = "round_over"
    /\ winner[1].reason = "domino"
    /\ winner[1].points > 0
    /\ winner[1].points # Pips(0) + Pips(1) + Pips(2) + Pips(3) - LosersPips

(* C6: a non-empty board is a connected chain from leftEnd to rightEnd:    *)
(* walking the stored tiles from the left, each tile carries the pip       *)
(* exposed by its predecessor, starting with leftEnd, and the walk ends    *)
(* on rightEnd.                                                            *)
RECURSIVE ChainFrom(_, _)
ChainFrom(b, e) ==
    IF b = <<>> THEN e = rightEnd
    ELSE /\ Touches(Head(b), e)
         /\ ChainFrom(Tail(b),
                      IF Head(b)[1] = e THEN Head(b)[2] ELSE Head(b)[1])

C6_BoardIsChain ==
    board # <<>> => (leftEnd # Null /\ rightEnd # Null
                     /\ ChainFrom(board, leftEnd))

C6_Witness ==
    /\ Len(board) >= 6
    /\ \E k \in 1..Len(logs) : logs[k].kind = "pass"
    /\ \E k \in 1..Len(logs) :
          logs[k].kind = "play" /\ logs[k].name = "You"
             /\ logs[k].side = "left"
    /\ \E k \in 1..Len(logs) :
          logs[k].kind = "play" /\ logs[k].name # "You"
             /\ logs[k].side = "right"
    /\ C6_BoardIsChain

(* C7: a play removes exactly one tile t from the hand of one seat, puts   *)
(* exactly t on the board at the chosen side, sets the end of that side to *)
(* the pip of t not matched to the previous end, and leaves the other end, *)
(* the other hands, the boneyard, the pass history and the status          *)
(* unchanged.                                                              *)
PlayEffect(s, k, side) ==
    LET t == Hand(s)[k]
    IN  /\ players'[s + 1].hand = Without(Hand(s), k)
        /\ \A o \in Seats \ {s} : players'[o + 1] = players[o + 1]
        /\ Len(board') = Len(board) + 1
        /\ IF side = "left"
           THEN /\ board' = <<t>> \o board
                /\ \/ (t[1] = leftEnd /\ leftEnd' = t[2])
                   \/ (t[2] = leftEnd /\ leftEnd' = t[1])
                /\ rightEnd' = rightEnd
           ELSE /\ board' = board \o <<t>>
                /\ \/ (t[1] = rightEnd /\ rightEnd' = t[2])
                   \/ (t[2] = rightEnd /\ rightEnd' = t[1])
                /\ leftEnd' = leftEnd
        /\ boneyard' = boneyard
        /\ passHistory' = passHistory
        /\ status' = status

C7_PlayFrame ==
    [][PlayStep =>
         \E s \in Seats : \E k \in 1..Len(Hand(s)) :
             \E side \in {"left", "right"} : PlayEffect(s, k, side)
      ]_vars

C7_Witness ==
    /\ status = "playing"
    /\ Len(logs) > 1
    /\ LastLog.kind = "play"
    /\ LastLog.side = "left"
    /\ ~isDouble(LastLog.tile)
    /\ leftEnd # rightEnd
    /\ board[1] = LastLog.tile

(* C8: right after a start or restart the hands, the board and the         *)
(* boneyard partition the 55 tiles of the deck: 15 in the boneyard, the    *)
(* start tile alone on the board, 9 in the starter's hand and 10 in each   *)
(* other hand.                                                             *)
Normal(t) == IF t[1] <= t[2] THEN t ELSE <<t[2], t[1]>>

TileSet(seq) == {Normal(seq[k]) : k \in 1..Len(seq)}

DeckSet == {<<a, b>> \in (0..9) \X (0..9) : a <= b}

Partitioned ==
    LET all == Hand(0) \o Hand(1) \o Hand(2) \o Hand(3) \o board \o boneyard
    IN  /\ Len(all) = 55
        /\ TileSet(all) = DeckSet
        /\ Cardinality(TileSet(all)) = 55

FreshDeal ==
    LET starter == (currentPlayerIndex + 1) % 4
    IN  /\ Dealt
        /\ Partitioned
        /\ Len(boneyard) = 15
        /\ Len(board) = 1
        /\ Len(Hand(starter)) = 9
        /\ \A o \in Seats \ {starter} : Len(Hand(o)) = 10
        /\ board[1] = logs[1].tile

C8_DealPartitions ==
    [][(status # "playing" /\ status' = "playing") => FreshDeal']_vars

C8_Witness ==
    /\ status = "playing"
    /\ Len(logs) = 1
    /\ effectDeps[2] = "round_over"
    /\ FreshDeal

(* C9: a tile selection made when seat 0 is not active, when the status   *)
(* is not playing, or with a tile matching neither open end changes        *)
(* nothing; and every tile played comes from the hand of the active seat.  *)
Rejected(tile) ==
    \/ currentPlayerIndex # 0
    \/ status # "playing"
    \/ ~(Touches(tile, leftEnd) \/ Touches(tile, rightEnd))

C9_RejectedClickIsNoOp ==
    [][/\ \A k \in 1..(IF Dealt THEN Len(Hand(0)) ELSE 0) :
            \A choice \in BOOLEAN :
               (Rejected(Hand(0)[k]) /\ onUserTileClick(Hand(0)[k], choice))
                  => UNCHANGED vars
       /\ \A s \in Seats :
            (status = "playing" /\ Dealt /\ players'[s + 1] # players[s + 1])
               => (s = currentPlayerIndex /\ PlayStep)
      ]_vars

C9_Witness ==
    /\ status = "playing"
    /\ ~EffectOutstanding
    /\ currentPlayerIndex = 0
    /\ \E k \in 1..Len(Hand(0)) : Rejected(Hand(0)[k])
    /\ \E k \in 1..Len(Hand(0)) : ~Rejected(Hand(0)[k])
    /\ \E k \in 1..Len(logs) : logs[k].kind = "play" /\ logs[k].name = "You"

(* C10: a pass is registered only for the active seat, in status playing,  *)
(* on a non-empty board, when getValidMoves of that seat's hand against    *)
(* the current open ends is empty.                                         *)
C10_PassOnlyWhenForced ==
    [][PassStep =>
         \A s \in Seats :
            passHistory'[s] # passHistory[s] =>
               /\ s = currentPlayerIndex
               /\ status = "playing"
               /\ board # <<>>
               /\ Len(getValidMoves(Hand(s), leftEnd, rightEnd)) = 0
               /\ ~SeatCanMove(s)
      ]_vars

C10_Witness ==
    /\ status = "playing"
    /\ Len(logs) > 1
    /\ LastLog.kind = "pass"
    /\ LastLog.name = "You"
    /\ \E k \in 1..Len(logs) : logs[k].kind = "pass" /\ logs[k].name # "You"

(* C11: a pass by seat s appends to passHistory[s] the current leftEnd and, *)
(* only when it differs, the current rightEnd; it moves the active seat to  *)
(* (s - 1 + 4) mod 4 and appends one log entry; hands, board, open ends,    *)
(* boneyard, the pass histories of the other seats and the status stay.     *)
SeatNamed(name) == CHOOSE s \in Seats : players[s + 1].name = name

C11_PassEffect ==
    [][PassStep =>
         LET s == SeatNamed(logs'[Len(logs')].name)
             missed == IF rightEnd = leftEnd THEN <<leftEnd>>
                       ELSE <<leftEnd, rightEnd>>
         IN  /\ passHistory'[s] = passHistory[s] \o missed
             /\ \A o \in Seats \ {s} : passHistory'[o] = passHistory[o]
             /\ currentPlayerIndex' = (s - 1 + 4) % 4
             /\ SubSeq(logs', 1, Len(logs)) = logs
             /\ players' = players
             /\ board' = board
             /\ leftEnd' = leftEnd
             /\ rightEnd' = rightEnd
             /\ boneyard' = boneyard
             /\ status' = status
      ]_vars

C11_Witness ==
    /\ status = "playing"
    /\ LastLog.kind = "pass"
    /\ leftEnd # rightEnd
    /\ LET s == SeatNamed(LastLog.name)
           n == Len(passHistory[s])
       IN  /\ n >= 2
           /\ passHistory[s][n - 1] = leftEnd
           /\ passHistory[s][n] = rightEnd
    /\ \E o \in Seats : Len(passHistory[o]) % 2 = 1

(* C12: the active seat changes only to (seat - 1 + 4) mod 4 while a round  *)
(* is played; every play and every pass moves it from s to that seat, in    *)
(* the order 0, 3, 2, 1, 0; four such moves return to the original seat,    *)
(* and consecutive turns belong to opposite teams.                          *)
NextSeat(s) == CASE s = 0 -> 3 [] s = 3 -> 2 [] s = 2 -> 1 [] s = 1 -> 0

C12_TurnOrder ==
    [][/\ (status = "playing" /\ currentPlayerIndex' # currentPlayerIndex)
            => currentPlayerIndex' = NextSeat(currentPlayerIndex)
       /\ (PlayStep \/ PassStep)
            => /\ currentPlayerIndex' = NextSeat(currentPlayerIndex)
               /\ TeamOf(currentPlayerIndex') # TeamOf(currentPlayerIndex)
               /\ NextSeat(NextSeat(NextSeat(currentPlayerIndex'))) =
                      currentPlayerIndex
      ]_vars

C12_Witness ==
    /\ status = "playing"
    /\ currentPlayerIndex = 3
    /\ LastLog.kind = "pass"
    /\ LastLog.name = "You"
    /\ Len(logs) >= 6
    /\ logs[Len(logs) - 1].kind = "play"
    /\ logs[Len(logs) - 1].name = "Bot 1 (Left)"

(* C13: a start or restart leaves status playing, the start tile alone on   *)
(* the board with its pips as open ends, the seat after the starter active, *)
(* every pass history empty, no winner, one log entry and no pending        *)
(* callback: nothing of the previous round survives.                        *)
StartStep == logs' # logs /\ Len(logs') = 1

C13_StartState ==
    [][(StartStep \/ (status # "playing" /\ status' = "playing")) =>
         /\ status' = "playing"
         /\ Len(board') = 1
         /\ board'[1] = logs'[1].tile
         /\ leftEnd' = board'[1][1]
         /\ rightEnd' = board'[1][2]
         /\ \E starterIndex \in Seats :
               /\ players'[starterIndex + 1].name = logs'[1].name
               /\ Len(players'[starterIndex + 1].hand) = HandSize - 1
               /\ currentPlayerIndex' = (starterIndex - 1 + 4) % 4
         /\ passHistory' = [s \in Seats |-> <<>>]
         /\ winner' = NoWinner
         /\ Len(logs') = 1
         /\ logs'[1].kind = "start"
         /\ timer'.kind = "none"
         /\ Partitioned'
      ]_vars

C13_Witness ==
    /\ status = "playing"
    /\ Len(logs) = 1
    /\ logs[1].kind = "start"
    /\ effectDeps[2] = "round_over"
    /\ effectDeps[3] > 1
    /\ winner = NoWinner
    /\ passHistory = [s \in Seats |-> <<>>]
    /\ board = <<logs[1].tile>>

(* C14: the status changes only idle -> playing, playing -> round_over and  *)
(* round_over -> playing; it never returns to idle, it leaves round_over    *)
(* only by a start, and a start happens only in idle or round_over.         *)
C14_StatusCycle ==
    [][/\ status' # status
            => \/ status = "idle" /\ status' = "playing"
               \/ status = "playing" /\ status' = "round_over"
               \/ status = "round_over" /\ status' = "playing"
       /\ (status # "playing" /\ status' = "playing") => StartStep
       /\ StartStep => status \in {"idle", "round_over"}
      ]_vars

C14_Witness ==
    /\ status = "round_over"
    /\ ~EffectOutstanding
    /\ winner # NoWinner
    /\ LastLog.kind = "over"
    /\ Len(logs) > 2
    /\ logs[1].kind = "start"

(* C15: leftEnd is null exactly when rightEnd is null, exactly when the     *)
(* board is empty, and only in status idle; in playing and round_over the   *)
(* board is non-empty and both ends are pips, so every getValidMoves call   *)
(* of a round receives two non-null ends.                                   *)
C15_EndsNullOnlyIdle ==
    /\ (leftEnd = Null) <=> (rightEnd = Null)
    /\ (leftEnd = Null) <=> (board = <<>>)
    /\ (board = <<>>) => (status = "idle")
    /\ status \in {"playing", "round_over"}
          => /\ Len(board) >= 1
             /\ leftEnd \in 0..MaxPip
             /\ rightEnd \in 0..MaxPip
    /\ timer.kind # "none"
          => (timer.leftEnd \in 0..MaxPip /\ timer.rightEnd \in 0..MaxPip)

C15_Witness ==
    /\ status = "playing"
    /\ timer.kind = "bot"
    /\ Len(board) >= 3
    /\ leftEnd = 0
    /\ rightEnd \in 1..MaxPip

(* C16: at most one callback is pending; none stays pending across a        *)
(* change of the active seat, the status or the board length; a callback    *)
(* that can fire belongs to the active seat and holds the open ends, hand   *)
(* and pass history of the current state; and a callback causes at most     *)
(* one play or pass.                                                        *)
Pending == timer.kind # "none"

C16_TimerCurrent ==
    /\ [](Pending =>
            /\ status = "playing" \/ EffectOutstanding
            /\ ~EffectOutstanding =>
                  /\ timer.player = players[currentPlayerIndex + 1]
                  /\ timer.leftEnd = leftEnd
                  /\ timer.rightEnd = rightEnd
                  /\ timer.passHistory = passHistory)
    /\ [][/\ Deps' # Deps => ~Pending'
          /\ (Pending /\ gameState' # gameState)
                => /\ ~Pending'
                   /\ (PlayStep /\ ~PassStep) \/ (PassStep /\ ~PlayStep)
         ]_vars

C16_Witness ==
    /\ status = "playing"
    /\ ~Pending
    /\ EffectOutstanding
    /\ effectDeps[1] = 0
    /\ LastLog.kind = "pass"
    /\ LastLog.name = "You"
    /\ Len(board) >= 4

-----------------------------------------------------------------------------
(* Vocabulary of the properties of the game logic, stated on the recorded  *)
(* call.                                                                   *)

BotMoveReturned == logic.botMove # <<>>

ValidMovesReturned == logic.validMoves # <<>>

EndsSet == logic.leftEnd # Null /\ logic.rightEnd # Null

LegalMoves == getValidMoves(logic.hand, logic.leftEnd, logic.rightEnd)

EndOf(side) == IF side = "left" THEN logic.leftEnd ELSE logic.rightEnd

(* The pip a move leaves open: the pip of the tile that is not laid        *)
(* against the end.                                                        *)
Exposed(move) ==
    IF move.tile[1] = EndOf(move.side) THEN move.tile[2] ELSE move.tile[1]

NextPasses == logic.passHistory[logic.nextPlayerId]

Blocking(move) ==
    \E k \in 1..Len(NextPasses) : NextPasses[k] = Exposed(move)

PipSum(move) == move.tile[1] + move.tile[2]

Doubled(move) == move.tile[1] = move.tile[2]

Score(move) ==
    PipSum(move) + (IF Blocking(move) THEN 25 ELSE 0)
                 + (IF Doubled(move) THEN 10 ELSE 0)

(* Two legal moves of which exactly one blocks; b is the index of the      *)
(* blocking move and 3 - b that of the other.                              *)
OneOfTwoBlocks ==
    /\ BotMoveReturned
    /\ EndsSet
    /\ LET moves == LegalMoves
       IN  /\ Len(moves) = 2
           /\ Blocking(moves[1]) # Blocking(moves[2])

BlockingIndex == IF Blocking(LegalMoves[1]) THEN 1 ELSE 2

(* C17 as stated: with exactly two legal moves of which exactly one        *)
(* exposes a pip the next seat has passed on, calculateBotMove returns     *)
(* that move.                                                              *)
C17_BlockingMoveChosen ==
    OneOfTwoBlocks => logic.botMove[1] = <<LegalMoves[BlockingIndex]>>

(* C17 amended: with exactly two legal moves of which exactly one blocks,  *)
(* calculateBotMove returns the blocking move, except that it returns the  *)
(* other move when that move plays a double, the blocking tile is not a    *)
(* double, and the double's pip sum exceeds the blocking tile's by more    *)
(* than 15, or by exactly 15 with the double's move first in the           *)
(* getValidMoves order.                                                    *)
DoubleOutweighs ==
    LET b == LegalMoves[BlockingIndex]
        o == LegalMoves[3 - BlockingIndex]
    IN  /\ Doubled(o)
        /\ ~Doubled(b)
        /\ \/ PipSum(o) - PipSum(b) > 15
           \/ PipSum(o) - PipSum(b) = 15 /\ BlockingIndex = 2

C17_BlockingUnlessDouble ==
    OneOfTwoBlocks =>
        logic.botMove[1] = IF DoubleOutweighs
                           THEN <<LegalMoves[3 - BlockingIndex]>>
                           ELSE <<LegalMoves[BlockingIndex]>>

C17_Witness ==
    /\ OneOfTwoBlocks
    /\ BlockingIndex = 2
    /\ ~DoubleOutweighs
    /\ Doubled(LegalMoves[1])
    /\ PipSum(LegalMoves[1]) > PipSum(LegalMoves[2])
    /\ logic.botMove[1] = <<LegalMoves[2]>>

(* C18: with two or more legal moves calculateBotMove returns a legal move *)
(* whose score (pip sum, +25 when the pip it exposes is in the next seat's *)
(* pass history, +10 for a double) is at least the score of every legal    *)
(* move, and which is the first of the moves of that score in the          *)
(* getValidMoves order.                                                    *)
C18_FirstBestMove ==
    (BotMoveReturned /\ EndsSet) =>
        LET moves == LegalMoves
            scores == [k \in 1..Len(moves) |-> Score(moves[k])]
        IN  Len(moves) >= 2 =>
              \E k \in 1..Len(moves) :
                 /\ logic.botMove[1] = <<moves[k]>>
                 /\ \A m \in 1..Len(moves) : scores[m] <= scores[k]
                 /\ \A m \in 1..(k - 1) : scores[m] < scores[k]

C18_Witness ==
    /\ BotMoveReturned
    /\ EndsSet
    /\ Len(LegalMoves) >= 3
    /\ logic.botMove[1] = <<LegalMoves[2]>>
    /\ Score(LegalMoves[1]) < Score(LegalMoves[2])
    /\ Score(LegalMoves[3]) = Score(LegalMoves[2])

(* C19: calculateBotMove returns null exactly when getValidMoves is empty; *)
(* otherwise it returns an entry of getValidMoves, the only one when there *)
(* is one: a tile of the hand which, on a board with open ends, carries    *)
(* the pip of the end on the chosen side.                                  *)
C19_NullIffNoMove ==
    BotMoveReturned =>
        LET move == logic.botMove[1]
            moves == LegalMoves
        IN  /\ (move = NoMove) <=> (Len(moves) = 0)
            /\ Len(moves) = 1 => move = <<moves[1]>>
            /\ move # NoMove =>
                  /\ \E k \in 1..Len(moves) : moves[k] = move[1]
                  /\ \E k \in 1..Len(logic.hand) :
                         logic.hand[k] = move[1].tile
                  /\ EndsSet =>
                        \/ move[1].tile[1] = EndOf(move[1].side)
                        \/ move[1].tile[2] = EndOf(move[1].side)

C19_Witness ==
    /\ BotMoveReturned
    /\ EndsSet
    /\ Len(logic.hand) = 2
    /\ logic.botMove[1] = <<[tile |-> logic.hand[2], side |-> "right"]>>
    /\ Len(LegalMoves) = 1

(* C20: with both ends set getValidMoves holds the entry (tile, left)      *)
(* once for each hand tile with a pip equal to leftEnd, the entry (tile,   *)
(* right) once for each hand tile with a pip equal to rightEnd, and no     *)
(* other entry, so a tile fitting both ends is entered twice, also when    *)
(* the ends are equal, and the result is empty exactly when no tile        *)
(* carries the pip of an end; with an end null it holds one entry per hand *)
(* tile.                                                                   *)
Entries(moves, tile, side) ==
    Cardinality({k \in 1..Len(moves) :
                   moves[k] = [tile |-> tile, side |-> side]})

Fits(tile, end) == tile[1] = end \/ tile[2] = end

-----------------------------------------------------------------------------
(* C23: when the human, active in status playing, selects a tile of the    *)
(* hand that fits an end, the tile is played: on the one end it fits; on   *)
(* the left when it fits both and the ends are equal; on the side the      *)
(* human chooses when it fits both and the ends differ.  The tile and      *)
(* side played are an entry of getValidMoves for the human's hand.         *)
SidePlayed(tile, choice) ==
    IF Touches(tile, leftEnd) /\ ~Touches(tile, rightEnd) THEN "left"
    ELSE IF Touches(tile, rightEnd) /\ ~Touches(tile, leftEnd) THEN "right"
    ELSE IF leftEnd = rightEnd THEN "left"
    ELSE IF choice THEN "left" ELSE "right"

C23_HumanPlaysChosenSide ==
    [][\A k \in 1..(IF Dealt THEN Len(Hand(0)) ELSE 0) :
          \A choice \in BOOLEAN :
             (~Rejected(Hand(0)[k]) /\ onUserTileClick(Hand(0)[k], choice))
                => LET played == [tile |-> Hand(0)[k],
                                  side |-> SidePlayed(Hand(0)[k], choice)]
                       moves == getValidMoves(Hand(0), leftEnd, rightEnd)
                   IN  /\ PlayStep
                       /\ logs' = Append(logs, [kind |-> "play", name |-> "You",
                                                tile |-> played.tile,
                                                side |-> played.side])
                       /\ board' = IF played.side = "left"
                                   THEN <<played.tile>> \o board
                                   ELSE board \o <<played.tile>>
                       /\ \E m \in 1..Len(moves) : moves[m] = played
      ]_vars

(* The human has just played on the right a tile that also fitted the      *)
(* left end, the two ends being different.                                 *)
C23_Witness ==
    /\ Len(board) >= 3
    /\ LastLog.kind = "play"
    /\ LastLog.name = "You"
    /\ LastLog.side = "right"
    /\ ~isDouble(LastLog.tile)
    /\ Touches(LastLog.tile, leftEnd)
    /\ leftEnd # (IF LastLog.tile[1] = rightEnd THEN LastLog.tile[2]
                  ELSE LastLog.tile[1])

(* C24: for a non-empty board getVisualChain has the length of the board,  *)
(* its element i is board tile i in one of its two orientations, the       *)
(* second pip of each element is the first pip of the next, the first pip  *)
(* of the first element is leftEnd and the second pip of the last is       *)
(* rightEnd.                                                               *)
C24_VisualChainConnected ==
    board # <<>> =>
        LET chain == getVisualChain
        IN  /\ Len(chain) = Len(board)
            /\ \A i \in 1..Len(board) :
                  \/ chain[i] = board[i]
                  \/ chain[i] = <<board[i][2], board[i][1]>>
            /\ \A i \in 1..(Len(chain) - 1) : chain[i][2] = chain[i + 1][1]
            /\ chain[1][1] = leftEnd
            /\ chain[Len(chain)][2] = rightEnd

C24_Witness ==
    /\ Len(board) >= 5
    /\ getVisualChain[1] # board[1]
    /\ getVisualChain[2] = board[2]
    /\ getVisualChain[Len(board)] # board[Len(board)]
    /\ \E i \in 1..Len(board) : isDouble(board[i])

(* C29: once dealt, the four hands, the board and the boneyard partition   *)
(* the 55 tiles of the deck, the boneyard holds 15 tiles and the hands and *)
(* the board 40; a step that is not a start leaves the boneyard as it is,  *)
(* removes no tile from the board and lets no hand grow.                   *)
Extends(b, c) ==
    \E k \in 0..(Len(c) - Len(b)) : SubSeq(c, k + 1, k + Len(b)) = b

C29_TilesConserved ==
    /\ [](Dealt =>
            /\ Partitioned
            /\ Len(boneyard) = 15
            /\ Len(Hand(0)) + Len(Hand(1)) + Len(Hand(2)) + Len(Hand(3))
                  + Len(board) = 40)
    /\ [][(Dealt /\ ~StartStep) =>
            /\ boneyard' = boneyard
            /\ Len(board') >= Len(board)
            /\ Extends(board, board')
            /\ \A s \in Seats :
                  /\ Len(players'[s + 1].hand) <= Len(Hand(s))
                  /\ \A k \in 1..Len(players'[s + 1].hand) :
                        \E m \in 1..Len(Hand(s)) :
                           Hand(s)[m] = players'[s + 1].hand[k]
         ]_vars

C29_Witness ==
    /\ status = "round_over"
    /\ Partitioned
    /\ Len(board) >= 12
    /\ \E k \in 1..Len(logs) : logs[k].kind = "pass"
    /\ \E k \in 1..Len(logs) : logs[k].kind = "play" /\ logs[k].side = "left"
    /\ Len(Hand(0)) + Len(Hand(1)) + Len(Hand(2)) + Len(Hand(3)) < 28

(* C30: under the scheduling of SpecFair every round being played reaches  *)
(* status round_over, and in every playing state some transition is        *)
(* enabled: the effect is due, a timer is pending, or the human is active  *)
(* with a tile that fits.                                                  *)
CanProceed ==
    \/ EffectOutstanding
    \/ timer.kind \in {"bot", "pass"}
    \/ currentPlayerIndex = 0 /\ SeatCanMove(0)

C30_RoundTerminates ==
    /\ [](status = "playing" => CanProceed)
    /\ (status = "playing") ~> (status = "round_over")

C30_Witness ==
    /\ status = "round_over"
    /\ Len(logs) >= 20
    /\ \E k \in 1..Len(logs) : logs[k].kind = "pass" /\ logs[k].name = "You"
    /\ \E k \in 1..Len(logs) : logs[k].kind = "pass" /\ logs[k].name # "You"
    /\ \E k \in 1..Len(logs) : logs[k].kind = "play" /\ logs[k].name = "You"

-----------------------------------------------------------------------------
(* Properties of the deal logic called on its own.                         *)

StarterReturned == logic.starter # <<>>

DealtHand(s) == logic.players[s + 1].hand

(* The places of the dealt tiles: seat and 1-based index in the hand.      *)
Places == {pl \in Seats \X (1..DealSize) : pl[2] <= Len(DealtHand(pl[1]))}

TileAt(pl) == DealtHand(pl[1])[pl[2]]

HandDoubles == {TileAt(pl) : pl \in {q \in Places : TileAt(q)[1] = TileAt(q)[2]}}

BoneDoubles ==
    {logic.boneyard[k] : k \in {m \in 1..Len(logic.boneyard) :
                                    logic.boneyard[m][1] = logic.boneyard[m][2]}}

(* C21: when some dealt hand holds a double, determineStarter returns the  *)
(* highest double held in a hand as start tile and the seat holding it as  *)
(* starter, whatever doubles lie in the boneyard.                          *)
C21_HighestHandDouble ==
    (StarterReturned /\ HandDoubles # {}) =>
        LET st == logic.starter[1]
            top == CHOOSE t \in HandDoubles : \A u \in HandDoubles : u[1] <= t[1]
        IN  /\ st.startTile = top
            /\ st.starterIndex \in Seats
            /\ \E pl \in Places : pl[1] = st.starterIndex /\ TileAt(pl) = top

C21_Witness ==
    /\ StarterReturned
    /\ HandDoubles # {}
    /\ \E b \in BoneDoubles : \A t \in HandDoubles : b[1] > t[1]
    /\ logic.starter[1].starterIndex # 0

Sum(pl) == TileAt(pl)[1] + TileAt(pl)[2]

(* pl is met before q when scanning seats 0,1,2,3 and each hand in order.  *)
Before(pl, q) == pl[1] < q[1] \/ (pl[1] = q[1] /\ pl[2] < q[2])

(* C22: when no dealt hand holds a double, determineStarter returns a tile *)
(* of the highest pip sum over the four hands, the first such tile in the  *)
(* scan of seats 0,1,2,3 and of each hand in order, and the seat holding   *)
(* it.                                                                     *)
C22_FirstHighestSum ==
    (StarterReturned /\ HandDoubles = {}) =>
        LET st == logic.starter[1]
        IN  \E pl \in Places :
               /\ \A q \in Places : Sum(q) <= Sum(pl)
               /\ \A q \in Places : Sum(q) = Sum(pl) => (q = pl \/ Before(pl, q))
               /\ st.startTile = TileAt(pl)
               /\ st.starterIndex = pl[1]

C22_Witness ==
    /\ StarterReturned
    /\ HandDoubles = {}
    /\ \E pl \in Places :
          /\ logic.starter[1].startTile = TileAt(pl)
          /\ \E q \in Places : q # pl /\ Sum(q) = Sum(pl)

ScoresReturned == logic.scores # <<>>

(* The pips (dots) on the tiles left in the hands of a team.               *)
Dots(team) ==
    {d \in (1..NumPlayers) \X (1..DealSize) \X (1..2) \X (1..MaxPip) :
        /\ logic.remaining[d[1]].team = team
        /\ d[2] <= Len(logic.remaining[d[1]].hand)
        /\ d[4] <= logic.remaining[d[1]].hand[d[2]][d[3]]}

AllDots ==
    {d \in (1..NumPlayers) \X (1..DealSize) \X (1..2) \X (1..MaxPip) :
        /\ d[2] <= Len(logic.remaining[d[1]].hand)
        /\ d[4] <= logic.remaining[d[1]].hand[d[2]][d[3]]}

(* C25: calculateScores returns as team0 the pips left in the hands of the *)
(* players of team 0 and as team1 those of team 1; the two add up to the   *)
(* pips left in all four hands.                                            *)
C25_TeamPipSums ==
    ScoresReturned =>
        LET sc == logic.scores[1]
        IN  /\ sc.team0 = Cardinality(Dots(0))
            /\ sc.team1 = Cardinality(Dots(1))
            /\ sc.team0 + sc.team1 = Cardinality(AllDots)

C25_Witness ==
    /\ ScoresReturned
    /\ logic.remaining[1].hand = <<>>
    /\ Len(logic.remaining[3].hand) = 1
    /\ logic.scores[1].team0 > 0
    /\ logic.scores[1].team1 > logic.scores[1].team0

-----------------------------------------------------------------------------
(* Properties of the deck logic called on its own.                         *)

(* C26: generateDeck returns exactly 55 tiles [i, j] with 0 <= i <= j <= 9,*)
(* every unordered pair of values in 0..9 exactly once, in the order       *)
(* i = 0..9, j = i..9.                                                     *)
C26_DeckCanonical ==
    logic.pc # "start" =>
        LET d == logic.generated
        IN  /\ Len(d) = 55
            /\ \A k \in 1..Len(d) :
                  /\ d[k][1] \in 0..9
                  /\ d[k][2] \in 0..9
                  /\ d[k][1] <= d[k][2]
            /\ \A a \in 0..9 : \A b \in 0..9 :
                  Cardinality({k \in 1..Len(d) : {d[k][1], d[k][2]} = {a, b}}) = 1
            /\ \A k \in 1..(Len(d) - 1) :
                  \/ d[k][1] < d[k + 1][1]
                  \/ d[k][1] = d[k + 1][1] /\ d[k][2] < d[k + 1][2]

C26_Witness ==
    /\ logic.pc = "generated"
    /\ logic.generated[1] = <<0, 0>>
    /\ logic.generated[Len(logic.generated)] = <<9, 9>>

Occurrences(d, t) == Cardinality({k \in 1..Len(d) : d[k] = t})

Permutation(a, b) ==
    /\ Len(a) = Len(b)
    /\ \A k \in 1..Len(a) : Occurrences(a, a[k]) = Occurrences(b, a[k])
    /\ \A k \in 1..Len(b) : Occurrences(a, b[k]) = Occurrences(b, b[k])

(* C27: whatever random indices are drawn, shuffleDeck returns a           *)
(* permutation of the deck passed in (same length, every tile as often as  *)
(* in the input), and the deck passed in is never written.                 *)
C27_ShufflePermutes ==
    /\ [](logic.pc = "returned" => Permutation(logic.shuffled, logic.deck))
    /\ [][logic.pc = "shuffling" => logic'.deck = logic.deck]_vars

C27_Witness ==
    /\ logic.pc = "returned"
    /\ Len(logic.deck) >= 4
    /\ \A k \in 1..Len(logic.deck) : logic.shuffled[k] # logic.deck[k]

-----------------------------------------------------------------------------
(* Properties of areTilesEqual called on its own.                          *)

(* C28: areTilesEqual is reflexive and symmetric on the tiles with pips in *)
(* 0..9 and true exactly when the two tiles are the same unordered pair of *)
(* pips, so a tile equals its reversed orientation.                        *)
C28_EqualAsUnorderedPairs ==
    logic.tilesEqual # <<>> =>
        LET t1 == logic.t1
            t2 == logic.t2
            equal == logic.tilesEqual[1]
        IN  /\ equal = ({t1[1], t1[2]} = {t2[1], t2[2]})
            /\ equal = areTilesEqual(t2, t1)
            /\ (t1 = t2 => equal)
            /\ (t2 = <<t1[2], t1[1]>> => equal)

C28_Witness ==
    /\ logic.tilesEqual = <<TRUE>>
    /\ logic.t1 = <<3, 5>>
    /\ logic.t2 = <<5, 3>>

-----------------------------------------------------------------------------
(* Properties of the rounds: passes and the round end.                     *)

(* The log entries k..k+n-1 are n passes in a row.                         *)
PassesAt(k, n) ==
    /\ k + n - 1 <= Len(logs)
    /\ \A m \in k..(k + n - 1) : logs[m].kind = "pass"

(* C31: a pass is registered only in a state where some seat has a tile    *)
(* that fits an open end, and the log never holds four passes in a row:    *)
(* at most three passes lie between two plays or between a play and the    *)
(* end of the round.                                                       *)
C31_AtMostThreePasses ==
    /\ [][PassStep => \E s \in Seats : SeatCanMove(s)]_vars
    /\ [](\A k \in 1..Len(logs) : ~PassesAt(k, 4))

C31_Witness ==
    \E k \in 1..Len(logs) :
        /\ PassesAt(k, 3)
        /\ logs[k - 1].kind = "play"
        /\ k + 3 <= Len(logs)
        /\ logs[k + 3].kind = "play"

(* C32: for every seat s and every value v in passHistory[s], no tile in   *)
(* the hand of s has a pip equal to v: what the bot reads about the next   *)
(* seat stays true for the rest of the round.                              *)
C32_PassHistorySound ==
    Dealt =>
        \A s \in Seats :
            \A k \in 1..Len(passHistory[s]) :
                \A m \in 1..Len(Hand(s)) :
                    ~Touches(Hand(s)[m], passHistory[s][k])

C32_Witness ==
    /\ status = "playing"
    /\ LastLog.kind = "play"
    /\ \E s \in Seats :
          /\ Len(passHistory[s]) >= 3
          /\ Len(Hand(s)) >= 2
          /\ passHistory[getNextPlayerIndex(s)] = <<>>
    /\ \E s \in 1..(NumPlayers - 1) :
          /\ currentPlayerIndex = s
          /\ passHistory[getNextPlayerIndex(s)] # <<>>

OverEntries == {k \in 1..Len(logs) : logs[k].kind = "over"}

(* C33: in status round_over no step changes hands, board, open ends,      *)
(* active seat, pass history, logs or winner except a start; the round end *)
(* is applied once per round: it appends one round-over entry and sets the *)
(* winner, and the log of a finished round holds exactly one round-over    *)
(* entry, the log of a round being played none.                            *)
C33_RoundOverFrozen ==
    /\ [][status = "round_over" => (gameState' = gameState \/ StartStep)]_vars
    /\ [][RoundEnds => /\ winner = NoWinner
                       /\ winner' # NoWinner
                       /\ Len(logs') = Len(logs) + 1
                       /\ logs'[Len(logs')].kind = "over"]_vars
    /\ [](status = "round_over" => (OverEntries = {Len(logs)} /\ winner # NoWinner))
    /\ [](status = "playing" => OverEntries = {})

C33_Witness ==
    /\ status = "round_over"
    /\ effectDeps = Deps
    /\ timer = NoTimer
    /\ OverEntries = {Len(logs)}
    /\ currentPlayerIndex # 0
    /\ Dealt
    /\ SeatCanMove(0)

(* C34: the winner record is non-null exactly in status round_over; when   *)
(* non-null its team is 0 or 1 (never the -1 the tranque scan starts       *)
(* from), its reason is domino or tranque and its points are a             *)
(* non-negative integer.                                                   *)
C34_WinnerRecord ==
    /\ (winner # NoWinner) <=> (status = "round_over")
    /\ winner # NoWinner =>
          /\ winner[1].team \in {0, 1}
          /\ winner[1].reason \in {"domino", "tranque"}
          /\ winner[1].points \in Nat

C34_Witness ==
    /\ status = "round_over"
    /\ winner # NoWinner
    /\ winner[1].reason = "tranque"
    /\ winner[1].team = 1
    /\ winner[1].points > 0

(* The seats whose remaining pip total is the lowest.                      *)
LowestSeats == {s \in Seats : \A o \in Seats : Pips(s) <= Pips(o)}

=============================================================================
